---- MODULE Spec2Model ----
(***************************************************************************)
(* debbie.py: scrape the Debian sources metadata API, filter packages by   *)
(* dominant language, download and extract each package, scan the tarball  *)
(* tree for keywords, write target/res.json.                               *)
(*                                                                         *)
(* The model follows run() (src/debbie.py:73-162) statement by statement,  *)
(* with get_metadata() (42-70) and dl_deb() (25-39) inlined at their call  *)
(* sites.  The network, the archive contents and whatever already lies in  *)
(* the target directory are the environment: each is drawn from a small    *)
(* set at the step that reads it.  The cache file is the one piece of the  *)
(* filesystem the program both writes and reads back, so it is kept as a   *)
(* variable across consecutive runs.                                       *)
(*                                                                         *)
(* Taken as working: the listing request of line 55 and the writes of the  *)
(* cache file and of res.json to a writable place.  A cache file holds a   *)
(* JSON list whose elements are all arrays (what dumps() makes of the      *)
(* tuples of line 65) or all objects with the four keys in the order       *)
(* name, language, version, page.                                          *)
(***************************************************************************)
EXTENDS Integers, Sequences, FiniteSets

VARIABLES
    pc,         \* position in run(): "check", "validate", "listing",
                \* "meta", "cachewrite", "setup", "iter", "loop", "write",
                \* "done", "crashed"
    exc,        \* the exception that ended the run, "none" while none has
    args,       \* run()'s parameters: langs, cache, keywords, sample_size, debs
    cacheFile,  \* the file at the path args.cache: NoFile, or its JSON content
    branch,     \* which side of line 82 this run took: "none", "fetch", "load"
    metaCalls,  \* calls of get_metadata made by this run
    netCalls,   \* requests get_metadata has sent to the metadata API
    acceptable, \* get_metadata's local: API codes of the accepted languages
    names,      \* get_metadata's local: the package names the API listed
    mi,         \* get_metadata's loop position in names
    metaLog,    \* what the API answered for each examined package
    fetched,    \* get_metadata's local list `packages`
    packages,   \* run()'s local list `packages`
    iter,       \* the list built in the for statement of line 100
    idx,        \* number of packages of iter the loop has taken
    result,     \* run()'s local list `result`
    last,       \* the latest loop iteration: package, how far it got, tree
    resJson,    \* target/res.json: Stale until this run writes it
    resWrites,  \* writes of target/res.json made by this run
    runNo       \* 1 for the first run, 2 for a run that follows it

vars == <<pc, exc, args, cacheFile, branch, metaCalls, netCalls, acceptable,
          names, mi, metaLog, fetched, packages, iter, idx, result, last,
          resJson, resWrites, runNo>>

(***************************************************************************)
(* Bounds of the model.                                                    *)
(***************************************************************************)
MaxPkgs == 3      \* packages the API lists / entries of a cache file
MaxSample == 1    \* largest positive --sample-size tried

PkgNames == 1..MaxPkgs

(***************************************************************************)
(* langs.py and endpoints.py are imported by debbie.py (lines 18-19) but   *)
(* are not part of the sources; the tables follow the specification: a     *)
(* language identifier maps to the API's language code and to a set of     *)
(* lowercase suffix chains.                                                *)
(***************************************************************************)
LangIds == {"c", "python"}
ApiLangs == {"ansic", "python"}

LANG_MAPS(l) == IF l = "c" THEN "ansic" ELSE "python"

LANGS(l) == IF l = "c" THEN {<<".c">>, <<".h">>} ELSE {<<".py">>}

PKG_SRC(package) == <<"sources", package>>

Versions == {"1.0"}

\* a file that is not there, and a file with the given JSON content
NoFile == [exists |-> FALSE, content |-> << >>]
FileOf(json) == [exists |-> TRUE, content |-> json]

\* target/res.json as this run found it, and as this run wrote it
Stale == [written |-> FALSE, content |-> << >>]
Written(json) == [written |-> TRUE, content |-> json]
None == "None"
CachePath == "cache.json"

(***************************************************************************)
(* JSON.  dumps() writes a tuple or a list as an array and a dict as an    *)
(* object; loads() reads an array back as a list and an object as a dict.  *)
(* The shape of each element is carried in its `shape` field.              *)
(***************************************************************************)
DumpShape(s) == IF s = "dict" THEN "object" ELSE "array"

LoadShape(s) == IF s = "object" THEN "dict" ELSE "list"

dumps(seq) == [i \in DOMAIN seq |-> [seq[i] EXCEPT !.shape = DumpShape(@)]]

loads(json) == [i \in DOMAIN json |-> [json[i] EXCEPT !.shape = LoadShape(@)]]

\* pkginfo = (package, top_lang, v, PKG_SRC.format(package)), line 65
PkgInfo(package, top_lang, v) ==
    [name |-> package, top_lang |-> top_lang, version |-> v,
     dpage |-> PKG_SRC(package), shape |-> "tuple"]

(***************************************************************************)
(* Inputs.                                                                 *)
(***************************************************************************)
LangArgs == {<<"c">>, <<"c", "python">>, <<"cobol">>}

\* a keyword is text of a given Python type; the files hold bytes
KeywordArgs == {<< >>,
                <<[type |-> "bytes", text |-> "decode"]>>,
                <<[type |-> "str", text |-> "decode"]>>}

SampleSizes == {-1, 0, MaxSample}

\* run() reads keywords in tarball mode only
RunArgs ==
    {a \in [langs : LangArgs, cache : {None, CachePath},
            keywords : KeywordArgs, sample_size : SampleSizes,
            debs : BOOLEAN] :
        a.debs => a.keywords = << >>}

\* a cache file found on disk before the first run: n entries, the first k
\* of them Python packages and the others C packages, written as JSON
\* arrays or as JSON objects
CacheEntry(i, lang, shape) ==
    [name |-> i, top_lang |-> lang, version |-> "1.0", dpage |-> PKG_SRC(i),
     shape |-> shape]

InitCaches ==
    {[i \in 1..n |-> CacheEntry(i, IF i <= k THEN "python" ELSE "ansic", shape)] :
        n \in 0..MaxPkgs, k \in 0..MaxPkgs, shape \in {"array", "object"}}

NoTree == [dir |-> FALSE, files |-> {}]

NoAttempt == [name |-> 0, stage |-> "none", tree |-> NoTree]

Init ==
    /\ pc = "check"
    /\ exc = "none"
    /\ args \in RunArgs
    /\ cacheFile \in IF args.cache = None THEN {NoFile}
                     ELSE {NoFile} \cup {FileOf(c) : c \in InitCaches}
    /\ branch = "none"
    /\ metaCalls = 0
    /\ netCalls = 0
    /\ acceptable = {}
    /\ names = << >>
    /\ mi = 0
    /\ metaLog = << >>
    /\ fetched = << >>
    /\ packages = << >>
    /\ iter = << >>
    /\ idx = 0
    /\ result = << >>
    /\ last = NoAttempt
    /\ resJson = Stale
    /\ resWrites = 0
    /\ runNo = 1

(***************************************************************************)
(* run(), lines 82-88: fetch or load the package list.                     *)
(***************************************************************************)

\* the test of line 82 with the existence test inverted
TakesFetchBranchInverted(cache, file) == cache = None \/ file.exists

\* line 82: `cache is None or not cache.exists()`
TakesFetchBranch(cache, file) == cache = None \/ ~file.exists

CheckCache ==
    /\ pc = "check"
    /\ IF TakesFetchBranch(args.cache, cacheFile)
       THEN /\ branch' = "fetch"
            /\ metaCalls' = metaCalls + 1
            /\ pc' = "validate"
            /\ UNCHANGED packages
       ELSE /\ branch' = "load"
            /\ packages' = loads(cacheFile.content)
            /\ pc' = "setup"
            /\ UNCHANGED metaCalls
    /\ UNCHANGED <<exc, args, cacheFile, netCalls, acceptable, names, mi,
                   metaLog, fetched, iter, idx, result, last, resJson,
                   resWrites, runNo>>

(***************************************************************************)
(* get_metadata(), lines 49-70.                                            *)
(***************************************************************************)

\* get_metadata asking for the listing before it looks at langs
ValidateAfterRequest ==
    /\ pc = "validate"
    /\ netCalls' = netCalls + 1
    /\ IF \A i \in DOMAIN args.langs : args.langs[i] \in LangIds
       THEN /\ acceptable' = {LANG_MAPS(args.langs[i]) : i \in DOMAIN args.langs}
            /\ pc' = "listing"
            /\ UNCHANGED exc
       ELSE /\ exc' = "AssertionError"
            /\ pc' = "crashed"
            /\ UNCHANGED acceptable
    /\ UNCHANGED <<args, cacheFile, branch, metaCalls, names, mi, metaLog,
                   fetched, packages, iter, idx, result, last, resJson,
                   resWrites, runNo>>

\* lines 49-53: LANG_MAPS[l] raises KeyError for an unknown identifier
ValidLangs(langs) == \A i \in DOMAIN langs : langs[i] \in LangIds

Validate ==
    /\ pc = "validate"
    /\ IF ValidLangs(args.langs)
       THEN /\ acceptable' = {LANG_MAPS(args.langs[i]) : i \in DOMAIN args.langs}
            /\ pc' = "listing"
            /\ UNCHANGED exc
       ELSE /\ exc' = "AssertionError"
            /\ pc' = "crashed"
            /\ UNCHANGED acceptable
    /\ UNCHANGED <<args, cacheFile, branch, metaCalls, netCalls, names, mi,
                   metaLog, fetched, packages, iter, idx, result, last,
                   resJson, resWrites, runNo>>

\* lines 55-56: one request for the listing; the API names n packages
FetchListing ==
    /\ pc = "listing"
    /\ \E n \in 0..MaxPkgs : names' = [i \in 1..n |-> i]
    /\ netCalls' = netCalls + 1
    /\ fetched' = << >>
    /\ mi' = 0
    /\ pc' = "meta"
    /\ UNCHANGED <<exc, args, cacheFile, branch, metaCalls, acceptable,
                   metaLog, packages, iter, idx, result, last, resJson,
                   resWrites, runNo>>

\* the filter of line 64 left out
AcceptsAny(top_lang, acc) == TRUE

\* line 64: the language filter
Accepts(top_lang, acc) == top_lang \in acc

\* lines 58-69, one iteration.  The version request or its JSON may fail
\* (one request sent), the info request or its JSON may fail (two sent),
\* or the info names the dominant language.
MetaStep ==
    /\ pc = "meta"
    /\ mi < Len(names)
    /\ LET package == names[mi + 1] IN
       \/ /\ netCalls' = netCalls + 1
          /\ metaLog' = Append(metaLog, [name |-> package, answer |-> "version_error"])
          /\ UNCHANGED fetched
       \/ /\ netCalls' = netCalls + 2
          /\ metaLog' = Append(metaLog, [name |-> package, answer |-> "info_error"])
          /\ UNCHANGED fetched
       \/ \E top_lang \in ApiLangs, v \in Versions :
             /\ netCalls' = netCalls + 2
             /\ metaLog' = Append(metaLog, [name |-> package, answer |-> top_lang])
             /\ fetched' = IF Accepts(top_lang, acceptable)
                           THEN Append(fetched, PkgInfo(package, top_lang, v))
                           ELSE fetched
    /\ mi' = mi + 1
    /\ UNCHANGED <<pc, exc, args, cacheFile, branch, metaCalls, acceptable,
                   names, packages, iter, idx, result, last, resJson,
                   resWrites, runNo>>

\* line 70 and the assignment of line 83
MetaReturn ==
    /\ pc = "meta"
    /\ mi = Len(names)
    /\ packages' = fetched
    /\ pc' = "cachewrite"
    /\ UNCHANGED <<exc, args, cacheFile, branch, metaCalls, netCalls,
                   acceptable, names, mi, metaLog, fetched, iter, idx, result,
                   last, resJson, resWrites, runNo>>

\* lines 84-85: open(cache, "w") raises TypeError when cache is None.
\* What get_metadata() examined is kept until here, one step after its
\* return, and dropped with its frame.
WriteCache ==
    /\ pc = "cachewrite"
    /\ IF args.cache = None
       THEN /\ exc' = "TypeError"
            /\ pc' = "crashed"
            /\ UNCHANGED cacheFile
       ELSE /\ cacheFile' = FileOf(dumps(packages))
            /\ pc' = "setup"
            /\ UNCHANGED exc
    /\ acceptable' = {}
    /\ names' = << >>
    /\ mi' = 0
    /\ metaLog' = << >>
    /\ fetched' = << >>
    /\ UNCHANGED <<args, branch, metaCalls, netCalls, packages, iter, idx,
                   result, last, resJson, resWrites, runNo>>

(***************************************************************************)
(* run(), lines 90-100: set up the loop.                                   *)
(***************************************************************************)
Orderings(seq) ==
    {[i \in DOMAIN seq |-> seq[f[i]]] :
        f \in {g \in [DOMAIN seq -> DOMAIN seq] :
                  \A i, j \in DOMAIN seq : g[i] = g[j] => i = j}}

\* lines 97-98
Shuffles(sample_size) == sample_size # 0

\* lines 90-98: target.mkdir, result = [], shuffle(packages)
Setup ==
    /\ pc = "setup"
    /\ result' = << >>
    /\ packages' \in IF Shuffles(args.sample_size)
                     THEN Orderings(packages)
                     ELSE {packages}
    /\ pc' = "iter"
    /\ UNCHANGED <<exc, args, cacheFile, branch, metaCalls, netCalls,
                   acceptable, names, mi, metaLog, fetched, iter, idx, last,
                   resJson, resWrites, runNo>>

\* p.values() exists for a dict only; a tuple or a list has no such method
HasValues(p) == p.shape = "dict"

\* the values of a dict in insertion order
Values(p) == <<p.name, p.top_lang, p.version, p.dpage>>

\* line 100: [p.values() for p in packages] is built before the first
\* iteration; AttributeError leaves run() as it is raised outside the try
BuildIter ==
    /\ pc = "iter"
    /\ IF \A i \in DOMAIN packages : HasValues(packages[i])
       THEN /\ iter' = [i \in DOMAIN packages |-> Values(packages[i])]
            /\ idx' = 0
            /\ pc' = IF Len(packages) = 0 THEN "write" ELSE "loop"
            /\ UNCHANGED exc
       ELSE /\ exc' = "AttributeError"
            /\ pc' = "crashed"
            /\ UNCHANGED <<iter, idx>>
    /\ UNCHANGED <<args, cacheFile, branch, metaCalls, netCalls, acceptable,
                   names, mi, metaLog, fetched, packages, result, last,
                   resJson, resWrites, runNo>>

(***************************************************************************)
(* The files of target/<package> after the tarball has been extracted      *)
(* (lines 126-134).  "nested" files lie under target/<package>/<package>,  *)
(* where the tarball is extracted; "outer" files lie in target/<package>   *)
(* itself: the downloaded <package>.tar.gz, and what an earlier run with   *)
(* the same target left there (dpkg-deb extracts into target/<package>).   *)
(***************************************************************************)
File(where, suffixes, has) == [where |-> where, suffixes |-> suffixes, has |-> has]

Tarball == File("outer", <<".tar", ".gz">>, {})

NestedFiles == {File("nested", <<".C">>, {"decode"}),
                File("nested", <<".txt">>, {"decode"}),
                File("nested", <<".h">>, {})}

OuterFiles == {File("outer", <<".c">>, {"decode"})}

\* The trees tried: the tarball and at most one more file.  `dir` tells
\* whether target/<package>/<package> exists: extracting an archive
\* without members creates nothing.
Trees ==
    {t \in [dir : BOOLEAN, files : SUBSET (NestedFiles \cup OuterFiles \cup {Tarball})] :
        /\ Tarball \in t.files
        /\ Cardinality(t.files) <= 2
        /\ (\E f \in t.files : f.where = "nested") => t.dir}

\* str.lower on one suffix
Lower(s) == IF s = ".C" THEN ".c" ELSE s

\* line 143: "".join(map(lambda s: s.lower(), fname.suffixes))
SuffixChain(f) == [i \in DOMAIN f.suffixes |-> Lower(f.suffixes[i])]

\* lines 137-139; LANGS[l] raises KeyError for an unknown identifier
OkSuffixes(langs) == UNION {LANGS(langs[i]) : i \in DOMAIN langs}

\* line 140: pkgpath.rglob("*") walks all of target/<package>
Walked(tree) == tree.files

\* lines 141-145
Qualifies(f, ok) == SuffixChain(f) \in ok

\* line 148, any(k in content for k in keywords): the keywords are tried in
\* order; a str keyword against bytes content raises TypeError
RECURSIVE AnyKeyword(_, _, _)
AnyKeyword(f, keywords, i) ==
    IF i > Len(keywords) THEN "False"
    ELSE IF keywords[i].type = "str" THEN "TypeError"
    ELSE IF keywords[i].text \in f.has THEN "True"
    ELSE AnyKeyword(f, keywords, i + 1)

\* line 148
Matches(f, keywords) == AnyKeyword(f, keywords, 1) = "True" \/ keywords = << >>

\* lines 136-149: the exception raised if any, else the value of res
Scan(tree, langs, keywords) ==
    IF ~ValidLangs(langs) THEN [raised |-> "KeyError", res |-> 0]
    ELSE LET scanned == {f \in Walked(tree) : Qualifies(f, OkSuffixes(langs))} IN
         IF \E f \in scanned : AnyKeyword(f, keywords, 1) = "TypeError"
         THEN [raised |-> "TypeError", res |-> 0]
         ELSE [raised |-> "none",
               res |-> IF \E f \in scanned : Matches(f, keywords) THEN 1 ELSE 0]

(***************************************************************************)
(* run(), lines 100-159: one iteration of the loop.                        *)
(***************************************************************************)
Errors == {"page_error", "download_error", "extract_error", "scan_error"}

\* find_object_files(pkgpath), line 113
ObjectFiles == {<< >>, <<"lib.o">>}

\* the test of line 158 with >= for >
BreakAtSize(n, sample_size) == n >= sample_size /\ sample_size # 0

\* line 158
BreakNow(n, sample_size) == n > sample_size /\ sample_size # 0

\* how far a tarball iteration gets once the archive is extracted
\* (lines 136-152)
AfterExtract(tree, langs, keywords) ==
    IF Scan(tree, langs, keywords).raised # "none" THEN "scan_error"
    ELSE IF tree.dir THEN "ok"
    ELSE "no_dir"

\* the exception handler of lines 154-156 skips the test of line 158
NextPc(stage, n, sample_size, taken, total) ==
    IF stage \notin Errors /\ BreakNow(n, sample_size) THEN "write"
    ELSE IF taken = total THEN "write"
    ELSE "loop"

\* the tuple of lines 113 and 152 with the version in place of top_lang
RecordShifted(t, flag) ==
    [name |-> t[1], top_lang |-> t[3], version |-> t[3], dpage |-> t[4],
     flag |-> flag, shape |-> "tuple"]

\* lines 113 and 152: (package, top_lang, version, dpage, flag), from the
\* variables the for statement of line 100 unpacked
Record(t, flag) ==
    [name |-> t[1], top_lang |-> t[2], version |-> t[3], dpage |-> t[4],
     flag |-> flag, shape |-> "tuple"]

\* line 152 without the test of line 151
AppendedUnchecked(t, stage, flag) ==
    IF stage \in {"ok", "no_dir"} THEN <<Record(t, flag)>> ELSE << >>

\* lines 106-114 and 124-152: what the iteration appends to result
Appended(t, stage, flag) == IF stage = "ok" THEN <<Record(t, flag)>> ELSE << >>

Finish(t, stage, tree, flag) ==
    /\ result' = result \o Appended(t, stage, flag)
    /\ last' = [name |-> t[1], stage |-> stage, tree |-> tree]
    /\ idx' = idx + 1
    /\ pc' = NextPc(stage, Len(result'), args.sample_size, idx + 1, Len(iter))

\* lines 102-114: dl_deb finds no link ("no_link"), or a request, the
\* download, dpkg-deb or find_object_files raises, or all succeed
ProcessDeb ==
    /\ pc = "loop"
    /\ args.debs
    /\ LET t == iter[idx + 1] IN
       \/ \E stage \in Errors \cup {"no_link"} : Finish(t, stage, NoTree, 0)
       \/ \E objs \in ObjectFiles : Finish(t, "ok", NoTree, objs)
    /\ UNCHANGED <<exc, args, cacheFile, branch, metaCalls, netCalls,
                   acceptable, names, mi, metaLog, fetched, packages, iter,
                   resJson, resWrites, runNo>>

\* lines 116-152
ProcessTarball ==
    /\ pc = "loop"
    /\ ~args.debs
    /\ LET t == iter[idx + 1] IN
       \/ \E stage \in {"page_error", "no_link", "download_error", "extract_error"} :
             Finish(t, stage, NoTree, 0)
       \/ \E tree \in Trees :
             Finish(t, AfterExtract(tree, args.langs, args.keywords), tree,
                    Scan(tree, args.langs, args.keywords).res)
    /\ UNCHANGED <<exc, args, cacheFile, branch, metaCalls, netCalls,
                   acceptable, names, mi, metaLog, fetched, packages, iter,
                   resJson, resWrites, runNo>>

\* lines 161-162
WriteResult ==
    /\ pc = "write"
    /\ resJson' = Written(dumps(result))
    /\ resWrites' = resWrites + 1
    /\ pc' = "done"
    /\ UNCHANGED <<exc, args, cacheFile, branch, metaCalls, netCalls,
                   acceptable, names, mi, metaLog, fetched, packages, iter,
                   idx, result, last, runNo>>

\* The program is run again with the same cache path, after a run that
\* wrote the cache file.
Rerun ==
    /\ pc \in {"done", "crashed"}
    /\ branch = "fetch"
    /\ cacheFile.exists
    /\ args' \in {a \in RunArgs : a.cache = args.cache}
    /\ pc' = "check"
    /\ exc' = "none"
    /\ branch' = "none"
    /\ metaCalls' = 0
    /\ netCalls' = 0
    /\ packages' = << >>
    /\ iter' = << >>
    /\ idx' = 0
    /\ result' = << >>
    /\ last' = NoAttempt
    /\ resJson' = Stale
    /\ resWrites' = 0
    /\ runNo' = 2
    /\ UNCHANGED <<cacheFile, acceptable, names, mi, metaLog, fetched>>

Next ==
    \/ CheckCache
    \/ Validate
    \/ FetchListing
    \/ MetaStep
    \/ MetaReturn
    \/ WriteCache
    \/ Setup
    \/ BuildIter
    \/ ProcessDeb
    \/ ProcessTarball
    \/ WriteResult
    \/ Rerun

Spec == Init /\ [][Next]_vars

(***************************************************************************)
(* Properties.                                                             *)
(***************************************************************************)
Ended == pc \in {"done", "crashed"}

\* the API codes of the languages given to this run
RunCodes == {LANG_MAPS(args.langs[i]) :
                i \in {j \in DOMAIN args.langs : args.langs[j] \in LangIds}}

UnknownLang == \E i \in DOMAIN args.langs : args.langs[i] \notin LangIds

\* a and b hold the same elements, each as often as the other
SameElements(a, b) ==
    /\ Len(a) = Len(b)
    /\ \A i \in DOMAIN a :
          Cardinality({j \in DOMAIN a : a[j] = a[i]})
             = Cardinality({j \in DOMAIN b : b[j] = a[i]})

\* C1: with a cache path whose file exists, get_metadata is not called, no
\* metadata request is sent, and the list the pipeline works on is the
\* content of the file (as loaded; reordered only by the shuffle).  With a
\* cache path whose file does not exist, get_metadata is called once and
\* its output is in the file before any package is processed; the run that
\* follows with the same path takes the load branch.
C1_CacheContract ==
    /\ branch = "load" =>
          /\ args.cache # None
          /\ metaCalls = 0 /\ netCalls = 0
          /\ SameElements(packages, loads(cacheFile.content))
          /\ (pc = "setup" \/ args.sample_size = 0) =>
                packages = loads(cacheFile.content)
          /\ pc \in {"loop", "write", "done"} =>
                iter = [i \in DOMAIN packages |-> Values(packages[i])]
    /\ (branch = "fetch" /\ args.cache # None) =>
          /\ metaCalls = 1
          /\ pc \in {"validate", "listing", "meta", "cachewrite"} =>
                /\ ~cacheFile.exists
                /\ idx = 0 /\ last = NoAttempt
          /\ pc \in {"setup", "iter", "loop", "write", "done"}
             \/ (pc = "crashed" /\ exc = "AttributeError") =>
                /\ cacheFile.exists
                /\ SameElements(dumps(packages), cacheFile.content)
                /\ pc = "setup" => cacheFile.content = dumps(packages)
                /\ ~TakesFetchBranch(args.cache, cacheFile)
    /\ (runNo = 2 /\ pc # "check") => branch = "load"

C1_Witness ==
    /\ runNo = 2
    /\ branch = "load"
    /\ metaCalls = 0
    /\ Len(packages) > 1

AcceptedExtracted(tree) ==
    {f \in tree.files :
        /\ f.where = "nested"
        /\ SuffixChain(f) \in UNION {LANGS(args.langs[i]) : i \in DOMAIN args.langs}}

\* the flag the scan is to give for an extracted tree
ClaimedFlag(tree) ==
    IF \E f \in AcceptedExtracted(tree) :
          \/ \E i \in DOMAIN args.keywords : args.keywords[i].text \in f.has
          \/ args.keywords = << >>
    THEN 1 ELSE 0

\* C3: in tarball mode, with known languages, a package whose tarball has
\* been extracted into its directory gets a record whose flag is 1 exactly
\* when an extracted file with an accepted suffix chain contains a keyword,
\* or there are no keywords and such a file exists, and 0 otherwise.
C3_ScanFlag ==
    (/\ ~args.debs
     /\ ~UnknownLang
     /\ last.tree.dir
     /\ last.stage \in {"ok", "scan_error"}) =>
        /\ last.stage = "ok"
        /\ result[Len(result)].name = last.name
        /\ result[Len(result)].flag = ClaimedFlag(last.tree)

\* one iteration of the loop, as C4 claims it
C4_StepClaimed ==
    (pc = "loop" /\ idx' = idx + 1) =>
        /\ last'.stage # "ok" =>
              /\ result' = result
              /\ idx' < Len(iter) => pc' = "loop"
        /\ result' # result =>
              /\ last'.stage = "ok"
              /\ Len(result') = Len(result) + 1
              /\ SubSeq(result', 1, Len(result)) = result
              /\ result'[Len(result')].name = iter[idx + 1][1]

\* C4 as claimed: a package that is skipped, for a missing link or for an
\* exception, leaves result as it was and the loop takes the next package
\* if there is one; a record is added only for a package whose download
\* and extraction succeeded.
C4_SkipClaimed == [][C4_StepClaimed]_vars

\* one iteration of the loop, as it is
C4_StepAmended ==
    (pc = "loop" /\ idx' = idx + 1) =>
        /\ last'.stage # "ok" =>
              /\ result' = result
              /\ idx' < Len(iter) =>
                    IF last'.stage \in {"no_link", "no_dir"} /\ args.sample_size < 0
                    THEN pc' = "write"
                    ELSE pc' = "loop"
        /\ result' # result =>
              /\ last'.stage = "ok"
              /\ Len(result') = Len(result) + 1
              /\ SubSeq(result', 1, Len(result)) = result
              /\ result'[Len(result')].name = iter[idx + 1][1]

\* C4 as amended: as claimed, except that with a negative sample_size a
\* package skipped without an exception (no link, or no package directory
\* after extraction) ends the loop at the test of line 158.
C4_Skip == [][C4_StepAmended]_vars

C4_Witness ==
    /\ pc = "loop"
    /\ last.stage \in {"no_link", "extract_error"}
    /\ Len(result) > 0
    /\ args.sample_size = MaxSample

\* C5: a run whose language list names an unknown language and that calls
\* get_metadata ends there with AssertionError, and get_metadata has sent
\* no request.
C5_InvalidLanguage ==
    /\ exc = "AssertionError" => (UnknownLang /\ netCalls = 0 /\ pc = "crashed")
    /\ (UnknownLang /\ branch = "fetch" /\ pc # "validate") =>
          (exc = "AssertionError" /\ netCalls = 0)

C5_Witness == exc = "AssertionError" /\ pc = "crashed"

\* C6: while get_metadata runs and when it returns, every record of its
\* output is for a listed package whose info named an accepted language
\* as the dominant one; a package whose lookup failed or whose dominant
\* language is not accepted is not in the output; and get_metadata returns
\* only after it has examined every listed package.
C6_Filter ==
    pc \in {"meta", "cachewrite"} =>
        /\ Len(metaLog) = mi
        /\ \A i \in 1..mi : metaLog[i].name = names[i]
        /\ \A k \in DOMAIN fetched :
              \E i \in 1..mi :
                 /\ metaLog[i].name = fetched[k].name
                 /\ metaLog[i].answer = fetched[k].top_lang
                 /\ metaLog[i].answer \in RunCodes
        /\ \A i \in 1..mi :
              metaLog[i].answer \notin RunCodes =>
                 \A k \in DOMAIN fetched : fetched[k].name # metaLog[i].name
        /\ pc = "cachewrite" => (mi = Len(names) /\ packages = fetched)

C6_Witness ==
    /\ pc = "cachewrite"
    /\ Len(metaLog) = MaxPkgs
    /\ metaLog[1].answer = "version_error"
    /\ metaLog[2].answer \in ApiLangs \ RunCodes
    /\ Len(packages) = MaxPkgs - 2

\* C7: with sample_size = 0 a run that was given a cache path and got its
\* package list, by fetching or by loading, ends having attempted every
\* package of it once, in the order of the list.
C7_AllAttempted ==
    (/\ args.sample_size = 0
     /\ args.cache # None
     /\ Ended
     /\ exc # "AssertionError") =>
        /\ idx = Len(packages)
        /\ iter = [i \in DOMAIN packages |-> Values(packages[i])]

\* C8: a run that was given a cache path and got its package list, by
\* fetching or by loading, ends with the loop left and target/res.json
\* written once, with the accumulated records.
C8_ResultWritten ==
    (/\ args.cache # None
     /\ Ended
     /\ exc # "AssertionError") =>
        /\ pc = "done"
        /\ resWrites = 1
        /\ resJson = Written(dumps(result))

\* C9: without a cache path the run fetches the metadata, touches no cache
\* file, and goes on to write target/res.json without raising.
C9_NoCache ==
    (args.cache = None /\ ~UnknownLang) =>
        /\ exc = "none"
        /\ pc # "check" => (branch = "fetch" /\ metaCalls = 1)
        /\ ~cacheFile.exists
        /\ Ended => (pc = "done" /\ resWrites = 1)

\* C10 as claimed: every record of result has the API code of one of the
\* languages given to this run as its dominant language.
C10_AcceptedClaimed ==
    \A k \in DOMAIN result : result[k].top_lang \in RunCodes

\* C10 as amended: every record of result is for an entry of the package
\* list the run obtained, with that entry's name, language, version and
\* page; the entries of a freshly fetched list all have an accepted
\* language, the entries of a loaded list are those of the cache file.
C10_FromList ==
    /\ \A k \in DOMAIN result :
          \E i \in DOMAIN packages :
             /\ result[k].name = packages[i].name
             /\ result[k].top_lang = packages[i].top_lang
             /\ result[k].version = packages[i].version
             /\ result[k].dpage = packages[i].dpage
    /\ branch = "fetch" =>
          \A i \in DOMAIN packages : packages[i].top_lang \in RunCodes
    /\ branch = "load" =>
          \A i \in DOMAIN packages :
             \E j \in DOMAIN cacheFile.content :
                /\ cacheFile.content[j].name = packages[i].name
                /\ cacheFile.content[j].top_lang = packages[i].top_lang

C10_Witness ==
    /\ branch = "load"
    /\ Len(result) > 1
    /\ \E k \in DOMAIN result : result[k].top_lang \notin RunCodes

====
